---- MODULE Spec2Model ----
(***************************************************************************)
(* Model of the meet-scheduler bot (src/app.py, src/agent.py): the         *)
(* `!schedule` command handler schedule_meet, the global command-error     *)
(* hook on_command_error, the transcript builder inside schedule_meet, the *)
(* response clamp of process_schedule_request, the cooldowns of the        *)
(* schedule and ping commands and the one event loop the handlers run on.  *)
(*                                                                         *)
(* Text is a sequence of one-character strings, so that len(), slicing,    *)
(* strip(), replace() and rstrip() are computed as Python computes them.   *)
(***************************************************************************)
EXTENDS Integers, Sequences, FiniteSets, TLC

(* ------------------------------------------------------------------ *)
(* Program constants                                                  *)
(* ------------------------------------------------------------------ *)
MAX_MESSAGE_LENGTH == 2000
TruncateMargin == 50
MaxContentLen == 500
HistoryLimit == 20
\* @commands.cooldown(1, 10, commands.BucketType.channel): rate, per seconds
CooldownRate == 1
CooldownPer == 10
\* @commands.cooldown(1, 5, commands.BucketType.user) of the ping command
PingRate == 1
PingPer == 5
\* Time is counted in hundredths of a second, fine enough for the one decimal
\* the cooldown message prints.
Seconds(n) == n * 100
\* The clock is kept relative to each bucket: elapsed[c] is the current time
\* minus the bucket's _window and stops counting at Expired, from where on
\* current > _window + per holds for good.
Expired == Seconds(CooldownPer) + 1
PingExpired == Seconds(PingPer) + 1

(* ------------------------------------------------------------------ *)
(* Bounds of the model                                                *)
(* ------------------------------------------------------------------ *)
\* messages a channel holds when its history is fetched
MaxMsgs == 2
\* pieces a message content is assembled from
MaxPieces == 2
\* how far around MAX_MESSAGE_LENGTH the model's raw outputs range
MaxOver == 51

(* ------------------------------------------------------------------ *)
(* Text helpers                                                       *)
(* ------------------------------------------------------------------ *)
Min(S) == CHOOSE x \in S : \A y \in S : x <= y

\* n copies of the character ch
Fill(n, ch) == [i \in 1..n |-> ch]

ZWSP == "ZWSP"
NL == "\n"
EveryoneTok == <<"@", "e", "v", "e", "r", "y", "o", "n", "e">>
HereTok == <<"@", "h", "e", "r", "e">>
EveryoneSafe == <<"@", ZWSP, "e", "v", "e", "r", "y", "o", "n", "e">>
HereSafe == <<"@", ZWSP, "h", "e", "r", "e">>

\* positions at which `old` occurs in s
Matches(s, old) ==
    {i \in 1..(Len(s) - Len(old) + 1) : SubSeq(s, i, i + Len(old) - 1) = old}

Occurs(s, old) == Matches(s, old) # {}

\* index of the first character of s that is not in `chars`, 0 if none
FirstNotIn(s, chars) ==
    IF \A i \in 1..Len(s) : s[i] \in chars
    THEN 0
    ELSE CHOOSE i \in 1..Len(s) :
             s[i] \notin chars /\ \A j \in 1..(i - 1) : s[j] \in chars

\* index of the last character of s that is not in `chars`, 0 if none
LastNotIn(s, chars) ==
    IF \A i \in 1..Len(s) : s[i] \in chars
    THEN 0
    ELSE Len(s) - (CHOOSE k \in 0..(Len(s) - 1) :
                       /\ s[Len(s) - k] \notin chars
                       /\ \A j \in 0..(k - 1) : s[Len(s) - j] \in chars)

\* the characters str.strip() removes (ZWSP is not one of them)
Whitespace == {" ", NL}

\* str.strip()
Strip(s) ==
    IF FirstNotIn(s, Whitespace) = 0
    THEN <<>>
    ELSE SubSeq(s, FirstNotIn(s, Whitespace), LastNotIn(s, Whitespace))

\* str.rstrip('\n')
RStripNL(s) ==
    IF LastNotIn(s, {NL}) = 0 THEN <<>> ELSE SubSeq(s, 1, LastNotIn(s, {NL}))

\* str.replace(old, new): leftmost non-overlapping occurrences, left to right
RECURSIVE ReplaceFrom(_, _, _, _)
ReplaceFrom(s, old, new, from) ==
    LET M == {i \in Matches(s, old) : i >= from}
    IN  IF M = {}
        THEN SubSeq(s, from, Len(s))
        ELSE LET i == Min(M)
             IN  SubSeq(s, from, i - 1) \o new
                     \o ReplaceFrom(s, old, new, i + Len(old))

Replace(s, old, new) == ReplaceFrom(s, old, new, 1)

\* list.reverse()
Reverse(s) == [i \in 1..Len(s) |-> s[Len(s) + 1 - i]]

(* ------------------------------------------------------------------ *)
(* Transcript builder (schedule_meet, the loop over the messages)     *)
(* ------------------------------------------------------------------ *)
\* message.author.display_name or message.author.name
Username(m) == IF m.display_name # <<>> THEN m.display_name ELSE m.name

\* content = message.content.strip()
Content(m) == Strip(m.content)

\* mutant: the length check is forgotten
SurvivesNoLimit(m) == Content(m) # <<>>

\* if content and len(content) <= 500
Survives(m) == Content(m) # <<>> /\ Len(Content(m)) <= MaxContentLen

\* content.replace('@everyone', ...).replace('@here', ...)
Sanitize(content) ==
    Replace(Replace(content, EveryoneTok, EveryoneSafe), HereTok, HereSafe)

\* f"{username}: {content}\n"
Line(m) == Username(m) \o <<":", " ">> \o Sanitize(Content(m)) \o <<NL>>

\* for message in messages: ... messages_string += ...
RECURSIVE BuildLoop(_, _, _)
BuildLoop(msgs, i, acc) ==
    IF i > Len(msgs)
    THEN acc
    ELSE BuildLoop(msgs, i + 1,
                   IF Survives(msgs[i]) THEN acc \o Line(msgs[i]) ELSE acc)

\* mutant: the reversal to chronological order is forgotten
BuildTranscriptNoReverse(fetched) == RStripNL(BuildLoop(fetched, 1, <<>>))

\* messages.reverse(); the loop; messages_string.rstrip('\n')
BuildTranscript(fetched) == RStripNL(BuildLoop(Reverse(fetched), 1, <<>>))

(* ------------------------------------------------------------------ *)
(* Fixed texts                                                        *)
(* ------------------------------------------------------------------ *)
\* "\n\n*[Response truncated]*"
TruncationMarker ==
    <<NL, NL, "*", "[", "R", "e", "s", "p", "o", "n", "s", "e", " ", "t", "r", "u", "n", "c", "a", "t", "e", "d", "]", "*">>

\* len() of the literal each kind of fixed message is posted with
FixedLen(kind) ==
    CASE kind = "Usage" -> 25
      [] kind = "Timeout" -> 52
      [] kind = "NoMessages" -> 36
      [] kind = "NoValid" -> 37
      [] kind = "Trouble" -> 89
      [] kind = "NoResponse" -> 52
      [] kind = "Permission" -> 66
      [] kind = "Communication" -> 66
      [] kind = "Unexpected" -> 58

\* the text process_schedule_request returns when chain.invoke raises
AIErrorText == Fill(90, "!")

\* f"{retry_after:.1f}": the tenths of a second the message prints for a
\* retry_after given in hundredths (no retry_after of the model ends in 5)
RetryTenths(retry_after) == (retry_after + 5) \div 10

\* len(f"{retry_after:.1f}") for a whole number of seconds
DigitsLen(n) == IF n < 10 THEN 3 ELSE 4

\* len(f"⏰ Please wait {retry_after:.1f} seconds before using this command again.")
CooldownLen(retry_after) == 55 + DigitsLen(RetryTenths(retry_after) \div 10)

(* ------------------------------------------------------------------ *)
(* process_schedule_request                                           *)
(* ------------------------------------------------------------------ *)
\* mutant: the comparison is >= instead of >
ClampAtLimit(text) ==
    IF Len(text) >= MAX_MESSAGE_LENGTH
    THEN SubSeq(text, 1, MAX_MESSAGE_LENGTH - TruncateMargin) \o TruncationMarker
    ELSE text

\* mutant: the slice leaves no room for the marker
ClampNoMargin(text) ==
    IF Len(text) > MAX_MESSAGE_LENGTH
    THEN SubSeq(text, 1, MAX_MESSAGE_LENGTH) \o TruncationMarker
    ELSE text

\* the clamp applied to what chain.invoke returned
Clamp(text) ==
    IF Len(text) > MAX_MESSAGE_LENGTH
    THEN SubSeq(text, 1, MAX_MESSAGE_LENGTH - TruncateMargin) \o TruncationMarker
    ELSE text

\* what a call gives its caller: a value, or an exception
Gives(text) == [raised |-> FALSE, text |-> text]
Raises == [raised |-> TRUE, text |-> <<>>]

\* mutant: the except clause lets the exception through
ProcessScheduleRequestReraise(o) ==
    IF o.ok THEN Gives(Clamp(o.text)) ELSE Raises

\* mutant: the except clause puts str(e) into the text it returns
ProcessScheduleRequestLeak(o) ==
    IF o.ok THEN Gives(Clamp(o.text)) ELSE Gives(AIErrorText \o o.text)

\* o is what chain.invoke did: it returned o.text (o.ok), or it raised an
\* exception e with str(e) = o.text
ProcessScheduleRequest(o) ==
    IF o.ok THEN Gives(Clamp(o.text)) ELSE Gives(AIErrorText)

(* ------------------------------------------------------------------ *)
(* Inputs                                                             *)
(* ------------------------------------------------------------------ *)
Channels == {"X", "Y"}

\* the users who send `!ping`
Users == {"U", "V"}

\* The time that passes between two looks at the clock, in hundredths of a
\* second: 4.96 s and 5 s, which add up to instants inside the schedule
\* window (4.96, 5, 9.92, 9.96 s), on its edge (10 s) and past it, and the
\* same for the ping window.
Delays == {496, 500}

\* the sub-action argument: None, the expected literal, another word
Actions == {"None", "meet", "sync"}

\* what a platform call raises when it fails (Forbidden is an HTTPException
\* subclass; "Exception" stands for anything that is neither)
Excs == {"Forbidden", "HTTPException", "Exception"}

Msg(d, n, c) == [display_name |-> d, name |-> n, content |-> c]

\* an ordinary message and a blank one
SimpleMsgs == {Msg(<<"d">>, <<"u">>, <<"y">>), Msg(<<"d">>, <<"u">>, <<" ">>)}

\* the same and a message one character over the length bound
SpecMsgs ==
    SimpleMsgs \cup {Msg(<<"d">>, <<"u">>, Fill(MaxContentLen + 1, "y"))}

Pieces ==
    {<<"@">>, <<"h", "e", "r", "e">>, EveryoneTok, HereTok, <<NL>>, <<"x">>}

\* every concatenation of at most n pieces
RECURSIVE Concats(_)
Concats(n) ==
    IF n = 0
    THEN {<<>>}
    ELSE LET P == Concats(n - 1) IN P \cup {p \o q : p \in P, q \in Pieces}

PadTo(s, n) == IF Len(s) >= n THEN s ELSE s \o Fill(n - Len(s), "x")

\* short contents, and the same padded to the length bound and one past it
Contents ==
    LET short == Concats(MaxPieces)
    IN  short \cup {PadTo(c, MaxContentLen) : c \in short}
              \cup {PadTo(c, MaxContentLen + 1) : c \in short}

DisplayNames == {<<>>, <<"d">>, <<"d", NL, "d">>, HereTok, EveryoneTok}
Names == {<<"u">>}

RichMsgs ==
    {Msg(<<"d">>, <<"u">>, c) : c \in Contents}
        \cup {Msg(d, n, <<"y">>) : d \in DisplayNames, n \in Names}

\* histories, most recent first: lists of simple messages
SimpleHistories == UNION {[1..n -> SimpleMsgs] : n \in 0..MaxMsgs}

\* the same with one message of each list replaced by a rich one
RichHistories ==
    SimpleHistories \cup
        UNION {{[h EXCEPT ![k] = r] : k \in 1..Len(h), r \in RichMsgs} :
                   h \in SimpleHistories}

\* what chain.invoke returns: texts of every length near 0 and near the limit
RawLens ==
    (0..MaxOver) \cup
        ((MAX_MESSAGE_LENGTH - MaxOver)..(MAX_MESSAGE_LENGTH + MaxOver))

RawText(n) == [i \in 1..n |-> IF i <= MAX_MESSAGE_LENGTH - TruncateMargin
                              THEN "r" ELSE "s"]

\* str(e) of the exception chain.invoke raises
Cause == <<"q", "u", "o", "t", "a">>

RichRaws == {RawText(n) : n \in RawLens}
SimpleRaws == {RawText(n) : n \in {0, 1, MAX_MESSAGE_LENGTH, MAX_MESSAGE_LENGTH + 1}}

(* ------------------------------------------------------------------ *)
(* State                                                              *)
(* ------------------------------------------------------------------ *)
VARIABLES
    elapsed,          \* per channel: time since Cooldown._window, capped
    tokens,           \* per channel: Cooldown._tokens of the schedule command
    pc,               \* per channel: where the invocation running there is
    action,           \* per channel: the sub-action argument
    msgs,             \* per channel: the list fetch_messages() is filling
    fetched,          \* per channel: how the awaited fetch ended
    messages,         \* per channel: schedule_meet's messages
    messages_string,  \* per channel: the transcript
    out,              \* per channel: what chain.invoke did
    response,         \* per channel: what process_schedule_request returned
    pending,          \* per channel: the post about to be awaited
    err,              \* per channel: the exception being handled
    retry_after,      \* per channel: CommandOnCooldown.retry_after
    posts,            \* per channel: the posts attempted, with their outcome
    invoked,          \* per channel: calls of chain.invoke
    fetches,          \* per channel: history fetches started
    escaped,          \* per channel: an exception left schedule_meet
    log,              \* per channel: what the invocation wrote to the logger
    taker,            \* per channel: the sub-action of the invocation that
                      \*   took the bucket's token last
    ping_elapsed,     \* per user: time since the ping bucket's _window, capped
    ping_tokens,      \* per user: Cooldown._tokens of the ping command
    ping_posts        \* per user: the posts the user's last `!ping` attempted

vars == <<elapsed, tokens, pc, action, msgs, fetched, messages,
          messages_string,
          out, response, pending, err, retry_after, posts, invoked, fetches,
          escaped, log, taker, ping_elapsed, ping_tokens, ping_posts>>

cooldownVars == <<elapsed, tokens>>
dataVars == <<msgs, fetched, messages, messages_string, out, response>>
pingVars == <<ping_elapsed, ping_tokens, ping_posts>>
\* what only the dispatch of a command sets
dispatchVars == <<retry_after, taker, pingVars>>

\* what chain.invoke did: returned text, or raised
Returned(text) == [called |-> TRUE, ok |-> TRUE, text |-> text, arg |-> <<>>]
Raised == [called |-> TRUE, ok |-> FALSE, text |-> Cause, arg |-> <<>>]
NoOut == [called |-> FALSE, ok |-> FALSE, text |-> <<>>, arg |-> <<>>]
Post(kind, text, ra) == [kind |-> kind, text |-> text, retry_after |-> ra]
NoPost == Post("None", <<>>, 0)
Fixed(kind) == Post(kind, <<>>, 0)

\* the length of the text a post carries
PostLen(p) ==
    CASE p.kind = "Response" -> Len(p.text)
      [] p.kind = "Cooldown" -> CooldownLen(p.retry_after)
      [] OTHER -> FixedLen(p.kind)

\* the posts that reached the channel
Delivered(c) == SelectSeq(posts[c], LAMBDA p : p.ok)

\* a line written to the logger by `at`, with the text it interpolates
LogLine(at, text) == [at |-> at, text |-> text]

Attempt(p, ok) ==
    [kind |-> p.kind, text |-> p.text, retry_after |-> p.retry_after, ok |-> ok]

Init ==
    /\ elapsed = [c \in Channels |-> Expired]
    /\ tokens = [c \in Channels |-> CooldownRate]
    /\ pc = [c \in Channels |-> "Idle"]
    /\ action = [c \in Channels |-> "None"]
    /\ msgs = [c \in Channels |-> <<>>]
    /\ fetched = [c \in Channels |-> "no"]
    /\ messages = [c \in Channels |-> <<>>]
    /\ messages_string = [c \in Channels |-> <<>>]
    /\ out = [c \in Channels |-> NoOut]
    /\ response = [c \in Channels |-> <<>>]
    /\ pending = [c \in Channels |-> NoPost]
    /\ err = [c \in Channels |-> "None"]
    /\ retry_after = [c \in Channels |-> 0]
    /\ posts = [c \in Channels |-> <<>>]
    /\ invoked = [c \in Channels |-> 0]
    /\ fetches = [c \in Channels |-> 0]
    /\ escaped = [c \in Channels |-> FALSE]
    /\ log = [c \in Channels |-> <<>>]
    /\ taker = [c \in Channels |-> "nobody"]
    /\ ping_elapsed = [u \in Users |-> PingExpired]
    /\ ping_tokens = [u \in Users |-> PingRate]
    /\ ping_posts = [u \in Users |-> <<>>]

(* ------------------------------------------------------------------ *)
(* The cooldown of the schedule command (one bucket per channel)      *)
(* ------------------------------------------------------------------ *)
\* Cooldown.get_tokens: the tokens the bucket of channel c holds now
GetTokens(c) ==
    IF elapsed[c] > Seconds(CooldownPer) THEN CooldownRate ELSE tokens[c]

\* time passes
Tick ==
    \E d \in Delays :
        /\ \/ \E c \in Channels : elapsed[c] < Expired
           \/ \E u \in Users : ping_elapsed[u] < PingExpired
        /\ elapsed' = [c \in Channels |-> Min({elapsed[c] + d, Expired})]
        /\ ping_elapsed' =
               [u \in Users |-> Min({ping_elapsed[u] + d, PingExpired})]
        /\ UNCHANGED <<tokens, pc, action, msgs, fetched, messages,
                       messages_string, out, response, pending, err,
                       retry_after, taker, ping_tokens, ping_posts, log,
                       posts, invoked, fetches, escaped>>

(* ------------------------------------------------------------------ *)
(* The event loop                                                     *)
(* ------------------------------------------------------------------ *)
\* The handlers are coroutines of one event loop, and chain.invoke is an
\* ordinary blocking call made on the loop's thread: while an invocation is
\* inside it (pc = "Recommending"), the loop runs no other handler.
Blocking == {c \in Channels : pc[c] = "Recommending"}

\* the loop can run a step of the invocation in channel c
LoopFree(c) == Blocking \subseteq {c}

(* ------------------------------------------------------------------ *)
(* One invocation of `!schedule <a>` in channel c                     *)
(* ------------------------------------------------------------------ *)
\* the locals of the previous invocation in the channel are gone
FreshLocals(c) ==
    /\ msgs' = [msgs EXCEPT ![c] = <<>>]
    /\ fetched' = [fetched EXCEPT ![c] = "no"]
    /\ messages' = [messages EXCEPT ![c] = <<>>]
    /\ messages_string' = [messages_string EXCEPT ![c] = <<>>]
    /\ out' = [out EXCEPT ![c] = NoOut]
    /\ response' = [response EXCEPT ![c] = <<>>]
    /\ pending' = [pending EXCEPT ![c] = NoPost]
    /\ posts' = [posts EXCEPT ![c] = <<>>]
    /\ invoked' = [invoked EXCEPT ![c] = 0]
    /\ fetches' = [fetches EXCEPT ![c] = 0]
    /\ escaped' = [escaped EXCEPT ![c] = FALSE]
    /\ log' = [log EXCEPT ![c] = <<>>]

\* mutant: the cooldown is looked at and taken for the sub-action "meet" only
InvokeMeetOnly(c, a) ==
    /\ pc[c] \in {"Idle", "Done"}
    /\ LoopFree(c)
    /\ action' = [action EXCEPT ![c] = a]
    /\ FreshLocals(c)
    /\ IF a = "meet" /\ GetTokens(c) = 0
       THEN /\ pc' = [pc EXCEPT ![c] = "Hook"]
            /\ err' = [err EXCEPT ![c] = "CommandOnCooldown"]
            /\ retry_after' =
                   [retry_after EXCEPT ![c] =
                        Seconds(CooldownPer) - elapsed[c]]
            /\ UNCHANGED <<elapsed, tokens, taker>>
       ELSE /\ pc' = [pc EXCEPT ![c] = "Validating"]
            /\ err' = [err EXCEPT ![c] = "None"]
            /\ retry_after' = [retry_after EXCEPT ![c] = 0]
            /\ elapsed' = [elapsed EXCEPT ![c] = IF a = "meet" THEN 0 ELSE @]
            /\ tokens' = [tokens EXCEPT ![c] =
                   IF a = "meet" THEN GetTokens(c) - 1 ELSE @]
            /\ taker' = [taker EXCEPT ![c] = a]
    /\ UNCHANGED pingVars

\* the framework dispatches the command: the cooldown is taken, and either
\* CommandOnCooldown goes to on_command_error or schedule_meet starts
Invoke(c, a) ==
    /\ pc[c] \in {"Idle", "Done"}
    /\ LoopFree(c)
    /\ action' = [action EXCEPT ![c] = a]
    /\ FreshLocals(c)
    /\ IF GetTokens(c) = 0
       THEN /\ pc' = [pc EXCEPT ![c] = "Hook"]
            /\ err' = [err EXCEPT ![c] = "CommandOnCooldown"]
            /\ retry_after' =
                   [retry_after EXCEPT ![c] =
                        Seconds(CooldownPer) - elapsed[c]]
            /\ UNCHANGED <<elapsed, tokens, taker>>
       ELSE /\ pc' = [pc EXCEPT ![c] = "Validating"]
            /\ err' = [err EXCEPT ![c] = "None"]
            /\ retry_after' = [retry_after EXCEPT ![c] = 0]
            /\ elapsed' = [elapsed EXCEPT ![c] =
                   IF GetTokens(c) = CooldownRate THEN 0 ELSE @]
            /\ tokens' = [tokens EXCEPT ![c] = GetTokens(c) - 1]
            /\ taker' = [taker EXCEPT ![c] = a]
    /\ UNCHANGED pingVars

\* mutant: the usage branch is missing
ValidateNoStop(c) ==
    /\ pc[c] = "Validating"
    /\ LoopFree(c)
    /\ pc' = [pc EXCEPT ![c] = "TypingStart"]
    /\ UNCHANGED <<cooldownVars, action, dataVars, pending, err, dispatchVars,
                   log, posts, invoked, fetches, escaped>>

\* if action != 'meet'
Validate(c) ==
    /\ pc[c] = "Validating"
    /\ LoopFree(c)
    /\ IF action[c] # "meet"
       THEN /\ pc' = [pc EXCEPT ![c] = "SendUsage"]
            /\ pending' = [pending EXCEPT ![c] = Fixed("Usage")]
       ELSE /\ pc' = [pc EXCEPT ![c] = "TypingStart"]
            /\ UNCHANGED pending
    /\ UNCHANGED <<cooldownVars, action, dataVars, err, dispatchVars, log,
                   posts, invoked, fetches, escaped>>

\* an exception leaves schedule_meet: the framework hands it, wrapped, to
\* on_command_error
Escape(c) ==
    /\ pc' = [pc EXCEPT ![c] = "Hook"]
    /\ err' = [err EXCEPT ![c] = "CommandInvokeError"]
    /\ escaped' = [escaped EXCEPT ![c] = TRUE]

\* await ctx.send("Usage ..."), outside the try block
SendUsage(c) ==
    /\ pc[c] = "SendUsage"
    /\ LoopFree(c)
    /\ \/ /\ posts' = [posts EXCEPT ![c] = Append(@, Attempt(pending[c], TRUE))]
          /\ pc' = [pc EXCEPT ![c] = "Done"]
          /\ UNCHANGED <<err, escaped>>
       \/ /\ posts' = [posts EXCEPT ![c] = Append(@, Attempt(pending[c], FALSE))]
          /\ Escape(c)
    /\ UNCHANGED <<cooldownVars, action, dataVars, pending, dispatchVars, log,
                   invoked, fetches>>

\* async with ctx.typing(): entering it, outside the try block
TypingStart(c) ==
    /\ pc[c] = "TypingStart"
    /\ LoopFree(c)
    /\ \/ /\ pc' = [pc EXCEPT ![c] = "FetchStart"]
          /\ UNCHANGED <<err, escaped>>
       \/ Escape(c)
    /\ UNCHANGED <<cooldownVars, action, dataVars, pending, dispatchVars, log,
                   posts, invoked, fetches>>

\* messages = []; asyncio.wait_for(fetch_messages(), timeout=5.0) starts
FetchStart(c) ==
    /\ pc[c] = "FetchStart"
    /\ LoopFree(c)
    /\ pc' = [pc EXCEPT ![c] = "Fetching"]
    /\ messages' = [messages EXCEPT ![c] = <<>>]
    /\ msgs' = [msgs EXCEPT ![c] = <<>>]
    /\ fetches' = [fetches EXCEPT ![c] = @ + 1]
    /\ UNCHANGED <<cooldownVars, action, fetched, messages_string, out,
                   response, pending, err, dispatchVars, log, posts, invoked,
                   escaped>>

\* async for message in channel.history(limit=20): msgs.append(message)
FetchMessage(c, m) ==
    /\ pc[c] = "Fetching"
    /\ LoopFree(c)
    /\ Len(msgs[c]) < HistoryLimit
    /\ Len(msgs[c]) < MaxMsgs
    /\ msgs' = [msgs EXCEPT ![c] = Append(@, m)]
    /\ UNCHANGED <<cooldownVars, pc, action, fetched, messages,
                   messages_string, out, response, pending, err, dispatchVars, log,
                   posts, invoked, fetches, escaped>>

\* return msgs; messages = await ...
FetchReturn(c) ==
    /\ pc[c] = "Fetching"
    /\ LoopFree(c)
    /\ messages' = [messages EXCEPT ![c] = msgs[c]]
    /\ fetched' = [fetched EXCEPT ![c] = "returned"]
    /\ pc' = [pc EXCEPT ![c] = "Fetched"]
    /\ UNCHANGED <<cooldownVars, action, msgs, messages_string, out,
                   response, pending, err, dispatchVars, log, posts, invoked,
                   fetches, escaped>>

\* mutant: on the timeout the handler goes on with what was received
FetchTimeoutPartial(c) ==
    /\ pc[c] = "Fetching"
    /\ LoopFree(c)
    /\ fetched' = [fetched EXCEPT ![c] = "timeout"]
    /\ messages' = [messages EXCEPT ![c] = msgs[c]]
    /\ pc' = [pc EXCEPT ![c] = "Fetched"]
    /\ UNCHANGED <<cooldownVars, action, msgs, messages_string, out,
                   response, pending, err, dispatchVars, log, posts, invoked,
                   fetches, escaped>>

\* mutant: on its first timeout the fetch is started again
FetchTimeoutRetry(c) ==
    /\ pc[c] = "Fetching"
    /\ LoopFree(c)
    /\ fetched' = [fetched EXCEPT ![c] = "timeout"]
    /\ IF fetches[c] = 1
       THEN /\ pc' = [pc EXCEPT ![c] = "FetchStart"]
            /\ UNCHANGED pending
       ELSE /\ pc' = [pc EXCEPT ![c] = "SendTry"]
            /\ pending' = [pending EXCEPT ![c] = Fixed("Timeout")]
    /\ UNCHANGED <<cooldownVars, action, msgs, messages, messages_string, out,
                   response, err, dispatchVars, log, posts, invoked,
                   fetches, escaped>>

\* except asyncio.TimeoutError: wait_for has cancelled fetch_messages(); the
\* list msgs it was filling is dropped with it (the model keeps it, to tell
\* what had been received), and `messages` is still the empty list. The
\* timer of wait_for is not tied to the clock of the cooldowns: the timeout
\* can strike at any point of the fetch.
FetchTimeout(c) ==
    /\ pc[c] = "Fetching"
    /\ LoopFree(c)
    /\ UNCHANGED msgs
    /\ fetched' = [fetched EXCEPT ![c] = "timeout"]
    /\ pending' = [pending EXCEPT ![c] = Fixed("Timeout")]
    /\ pc' = [pc EXCEPT ![c] = "SendTry"]
    /\ UNCHANGED <<cooldownVars, action, messages, messages_string, out,
                   response, err, dispatchVars, log, posts, invoked, fetches,
                   escaped>>

\* mutant: the fetch is awaited outside the try block
FetchFailUncaught(c, e) ==
    /\ pc[c] = "Fetching"
    /\ LoopFree(c)
    /\ msgs' = [msgs EXCEPT ![c] = <<>>]
    /\ fetched' = [fetched EXCEPT ![c] = "raised"]
    /\ Escape(c)
    /\ UNCHANGED <<cooldownVars, action, messages, messages_string, out,
                   response, pending, dispatchVars, log, posts, invoked, fetches>>

\* channel.history raises: the exception reaches the except clauses
FetchFail(c, e) ==
    /\ pc[c] = "Fetching"
    /\ LoopFree(c)
    /\ msgs' = [msgs EXCEPT ![c] = <<>>]
    /\ fetched' = [fetched EXCEPT ![c] = "raised"]
    /\ err' = [err EXCEPT ![c] = e]
    /\ pc' = [pc EXCEPT ![c] = "Handler"]
    /\ UNCHANGED <<cooldownVars, action, messages, messages_string, out,
                   response, pending, dispatchVars, log, posts, invoked, fetches,
                   escaped>>

\* mutant: the `if not messages` check is missing
BuildNoEmptyCheck(c) ==
    /\ pc[c] = "Fetched"
    /\ LoopFree(c)
    /\ messages' = [messages EXCEPT ![c] = Reverse(@)]
    /\ messages_string' =
           [messages_string EXCEPT ![c] = BuildTranscript(messages[c])]
    /\ IF messages_string'[c] = <<>>
       THEN /\ pending' = [pending EXCEPT ![c] = Fixed("NoValid")]
            /\ pc' = [pc EXCEPT ![c] = "SendTry"]
       ELSE /\ pc' = [pc EXCEPT ![c] = "Logging"]
            /\ UNCHANGED pending
    /\ UNCHANGED <<cooldownVars, action, msgs, fetched, out, response,
                   err, dispatchVars, log, posts, invoked, fetches, escaped>>

\* mutant: the `if not messages_string` check is missing
BuildNoValidCheck(c) ==
    /\ pc[c] = "Fetched"
    /\ LoopFree(c)
    /\ IF messages[c] = <<>>
       THEN /\ pending' = [pending EXCEPT ![c] = Fixed("NoMessages")]
            /\ pc' = [pc EXCEPT ![c] = "SendTry"]
            /\ UNCHANGED <<messages, messages_string>>
       ELSE /\ messages' = [messages EXCEPT ![c] = Reverse(@)]
            /\ messages_string' =
                   [messages_string EXCEPT ![c] = BuildTranscript(messages[c])]
            /\ pc' = [pc EXCEPT ![c] = "Logging"]
            /\ UNCHANGED pending
    /\ UNCHANGED <<cooldownVars, action, msgs, fetched, out, response,
                   err, dispatchVars, log, posts, invoked, fetches, escaped>>

\* if not messages; messages.reverse(); the transcript; if not messages_string
Build(c) ==
    /\ pc[c] = "Fetched"
    /\ LoopFree(c)
    /\ IF messages[c] = <<>>
       THEN /\ pending' = [pending EXCEPT ![c] = Fixed("NoMessages")]
            /\ pc' = [pc EXCEPT ![c] = "SendTry"]
            /\ UNCHANGED <<messages, messages_string>>
       ELSE /\ messages' = [messages EXCEPT ![c] = Reverse(@)]
            /\ messages_string' =
                   [messages_string EXCEPT ![c] = BuildTranscript(messages[c])]
            /\ IF messages_string'[c] = <<>>
               THEN /\ pending' = [pending EXCEPT ![c] = Fixed("NoValid")]
                    /\ pc' = [pc EXCEPT ![c] = "SendTry"]
               ELSE /\ pc' = [pc EXCEPT ![c] = "Logging"]
                    /\ UNCHANGED pending
    /\ UNCHANGED <<cooldownVars, action, msgs, fetched, out, response,
                   err, dispatchVars, log, posts, invoked, fetches, escaped>>

\* logger.info(f"... {ctx.author} in {ctx.guild.name}#{ctx.channel.name}"):
\* in a guild it logs; in a direct message ctx.guild is None and the
\* AttributeError reaches the except clauses
LogRequest(c) ==
    /\ pc[c] = "Logging"
    /\ LoopFree(c)
    /\ \/ /\ pc' = [pc EXCEPT ![c] = "Recommending"]
          /\ log' = [log EXCEPT ![c] = Append(@, LogLine("schedule_meet", <<>>))]
          /\ UNCHANGED err
       \/ /\ pc' = [pc EXCEPT ![c] = "Handler"]
          /\ err' = [err EXCEPT ![c] = "Exception"]
          /\ UNCHANGED log
    /\ UNCHANGED <<cooldownVars, action, dataVars, pending, dispatchVars,
                   posts, invoked, fetches, escaped>>

\* try: response = process_schedule_request(messages_string), where
\* chain.invoke({"chat_history": messages_string}) does o, and the except
\* clause of schedule_meet around the call. The call is synchronous:
\* pc = "Recommending" is the time the thread spends inside chain.invoke,
\* and this step is its return.
Recommend(c, o) ==
    /\ pc[c] = "Recommending"
    /\ LoopFree(c)
    /\ out' = [out EXCEPT ![c] = [o EXCEPT !.arg = messages_string[c]]]
    /\ invoked' = [invoked EXCEPT ![c] = @ + 1]
    /\ IF ProcessScheduleRequest(o).raised
       THEN /\ log' = [log EXCEPT ![c] =
                   Append(@, LogLine("schedule_meet", o.text))]
            /\ pending' = [pending EXCEPT ![c] = Fixed("Trouble")]
            /\ pc' = [pc EXCEPT ![c] = "SendTry"]
            /\ UNCHANGED response
       ELSE /\ log' = [log EXCEPT ![c] =
                   IF o.ok
                   THEN @
                   ELSE Append(@, LogLine("process_schedule_request", o.text))]
            /\ response' =
                   [response EXCEPT ![c] = ProcessScheduleRequest(o).text]
            /\ pc' = [pc EXCEPT ![c] = "Responding"]
            /\ UNCHANGED pending
    /\ UNCHANGED <<cooldownVars, action, msgs, fetched, messages,
                   messages_string, err, dispatchVars, posts, fetches,
                   escaped>>

\* if response: channel.send(response) else: ctx.send("couldn't generate")
Respond(c) ==
    /\ pc[c] = "Responding"
    /\ LoopFree(c)
    /\ pending' = [pending EXCEPT ![c] =
           IF response[c] # <<>>
           THEN Post("Response", response[c], 0)
           ELSE Fixed("NoResponse")]
    /\ pc' = [pc EXCEPT ![c] = "SendTry"]
    /\ UNCHANGED <<cooldownVars, action, dataVars, err, dispatchVars, log,
                   posts, invoked, fetches, escaped>>

\* mutant: the `return` after an early message is missing, so the handler
\* goes on to the recommendation
SendTryNoReturn(c) ==
    /\ pc[c] = "SendTry"
    /\ LoopFree(c)
    /\ \/ /\ posts' = [posts EXCEPT ![c] = Append(@, Attempt(pending[c], TRUE))]
          /\ pc' = [pc EXCEPT ![c] =
                 IF pending[c].kind \in {"Response", "NoResponse"}
                 THEN "Done" ELSE "Recommending"]
          /\ UNCHANGED err
       \/ \E e \in Excs :
            /\ posts' = [posts EXCEPT ![c] =
                   Append(@, Attempt(pending[c], FALSE))]
            /\ pc' = [pc EXCEPT ![c] = "Handler"]
            /\ err' = [err EXCEPT ![c] = e]
    /\ UNCHANGED <<cooldownVars, action, dataVars, pending, dispatchVars, log,
                   invoked, fetches, escaped>>

\* an awaited send inside the try block: it posts, or it raises e
SendTry(c) ==
    /\ pc[c] = "SendTry"
    /\ LoopFree(c)
    /\ \/ /\ posts' = [posts EXCEPT ![c] = Append(@, Attempt(pending[c], TRUE))]
          /\ pc' = [pc EXCEPT ![c] = "Done"]
          /\ UNCHANGED err
       \/ \E e \in Excs :
            /\ posts' = [posts EXCEPT ![c] =
                   Append(@, Attempt(pending[c], FALSE))]
            /\ pc' = [pc EXCEPT ![c] = "Handler"]
            /\ err' = [err EXCEPT ![c] = e]
    /\ UNCHANGED <<cooldownVars, action, dataVars, pending, dispatchVars, log,
                   invoked, fetches, escaped>>

\* mutant: the clause for discord.HTTPException comes first and catches its
\* subclass discord.Forbidden too
HandlerMsgBaseFirst(e) ==
    CASE e \in {"Forbidden", "HTTPException"} -> Fixed("Communication")
      [] OTHER -> Fixed("Unexpected")

\* the message of the except clause that catches e
HandlerMsg(e) ==
    CASE e = "Forbidden" -> Fixed("Permission")
      [] e = "HTTPException" -> Fixed("Communication")
      [] OTHER -> Fixed("Unexpected")

\* except discord.Forbidden / discord.HTTPException / Exception: the clause
\* sends its message; a send that raises there leaves schedule_meet
HandleError(c) ==
    /\ pc[c] = "Handler"
    /\ LoopFree(c)
    /\ pending' = [pending EXCEPT ![c] = HandlerMsg(err[c])]
    /\ log' = [log EXCEPT ![c] =
           IF err[c] = "Forbidden"
           THEN @
           ELSE Append(@, LogLine("schedule_meet", <<>>))]
    /\ \/ /\ posts' = [posts EXCEPT ![c] =
                 Append(@, Attempt(HandlerMsg(err[c]), TRUE))]
          /\ pc' = [pc EXCEPT ![c] = "Done"]
          /\ UNCHANGED <<err, escaped>>
       \/ /\ posts' = [posts EXCEPT ![c] =
                 Append(@, Attempt(HandlerMsg(err[c]), FALSE))]
          /\ Escape(c)
    /\ UNCHANGED <<cooldownVars, action, dataVars, dispatchVars, invoked,
                   fetches>>

\* the message on_command_error answers error e with (none for CommandNotFound)
HookMsg(e, ra) ==
    CASE e = "CommandNotFound" -> NoPost
      [] e = "MissingRequiredArgument" -> Fixed("Usage")
      [] e = "CommandOnCooldown" -> Post("Cooldown", <<>>, ra)
      [] OTHER -> Fixed("Unexpected")

\* on_command_error(ctx, error): its send posts, or raises into on_error,
\* which only logs
OnCommandError(c) ==
    /\ pc[c] = "Hook"
    /\ LoopFree(c)
    /\ pending' = [pending EXCEPT ![c] = HookMsg(err[c], retry_after[c])]
    /\ log' = [log EXCEPT ![c] =
           IF err[c] \in {"CommandNotFound", "MissingRequiredArgument",
                          "CommandOnCooldown"}
           THEN @
           ELSE Append(@, LogLine("on_command_error", <<>>))]
    /\ \E ok \in BOOLEAN :
         posts' = [posts EXCEPT ![c] =
             IF HookMsg(err[c], retry_after[c]) = NoPost
             THEN @
             ELSE Append(@, Attempt(HookMsg(err[c], retry_after[c]), ok))]
    /\ pc' = [pc EXCEPT ![c] = "Done"]
    /\ UNCHANGED <<cooldownVars, action, dataVars, err, dispatchVars,
                   invoked, fetches, escaped>>

(* ------------------------------------------------------------------ *)
(* The ping command (one bucket per user)                             *)
(* ------------------------------------------------------------------ *)
\* Cooldown.get_tokens for the ping bucket of user u
PingGetTokens(u) ==
    IF ping_elapsed[u] > Seconds(PingPer) THEN PingRate ELSE ping_tokens[u]

\* mutant: `!ping` is counted against the buckets of the schedule command
PingSharedBucket(u) ==
    /\ Blocking = {}
    /\ \E ok \in BOOLEAN :
         ping_posts' = [ping_posts EXCEPT ![u] = <<Attempt(Fixed("Pong"), ok)>>]
    /\ elapsed' = [c \in Channels |-> 0]
    /\ tokens' = [c \in Channels |-> 0]
    /\ UNCHANGED <<ping_elapsed, ping_tokens, pc, action, dataVars, pending,
                   err, retry_after, taker, posts, invoked, fetches, escaped,
                   log>>

\* `!ping` from user u: the cooldown is taken; either CommandOnCooldown goes
\* to on_command_error, or ping sends its embed, and a send that raises
\* goes to on_command_error, whose own send posts or raises into on_error
Ping(u) ==
    /\ Blocking = {}
    /\ IF PingGetTokens(u) = 0
       THEN /\ \E ok \in BOOLEAN :
                 ping_posts' = [ping_posts EXCEPT ![u] =
                     <<Attempt(Post("Cooldown", <<>>,
                                    Seconds(PingPer) - ping_elapsed[u]), ok)>>]
            /\ UNCHANGED <<ping_elapsed, ping_tokens>>
       ELSE /\ ping_elapsed' = [ping_elapsed EXCEPT ![u] =
                   IF PingGetTokens(u) = PingRate THEN 0 ELSE @]
            /\ ping_tokens' = [ping_tokens EXCEPT ![u] = PingGetTokens(u) - 1]
            /\ \/ ping_posts' = [ping_posts EXCEPT ![u] =
                       <<Attempt(Fixed("Pong"), TRUE)>>]
               \/ \E ok \in BOOLEAN :
                     ping_posts' = [ping_posts EXCEPT ![u] =
                         <<Attempt(Fixed("Pong"), FALSE),
                           Attempt(Fixed("Unexpected"), ok)>>]
    /\ UNCHANGED <<cooldownVars, pc, action, dataVars, pending, err,
                   retry_after, taker, posts, invoked, fetches, escaped, log>>

(* ------------------------------------------------------------------ *)
(* Specifications                                                     *)
(* ------------------------------------------------------------------ *)
\* every step an invocation in channel c can take, with the channel's
\* messages drawn from M and the model's outputs from R
Step(c, M, R) ==
    \/ \E a \in Actions : Invoke(c, a)
    \/ Validate(c)
    \/ SendUsage(c)
    \/ TypingStart(c)
    \/ FetchStart(c)
    \/ \E m \in M : FetchMessage(c, m)
    \/ FetchReturn(c)
    \/ FetchTimeout(c)
    \/ \E e \in Excs : FetchFail(c, e)
    \/ Build(c)
    \/ LogRequest(c)
    \/ \E r \in R : Recommend(c, Returned(r))
    \/ Recommend(c, Raised)
    \/ Respond(c)
    \/ SendTry(c)
    \/ HandleError(c)
    \/ OnCommandError(c)

\* The schedule command, invoked again and again in one channel, and the
\* clock. Invocations in different channels share no data (a bucket and a
\* call's locals belong to one channel), so this specification follows
\* channel X alone; SpecConc and SpecCooldown follow two channels.
Next == Tick \/ Step("X", SpecMsgs, SimpleRaws)

Spec == Init /\ [][Next]_vars

\* the state in which channel X's admitted `!schedule meet` has reached
\* position p with history h fetched, nothing posted yet
InFlight(p, h) ==
    /\ elapsed = [c \in Channels |-> IF c = "X" THEN 0 ELSE Expired]
    /\ tokens = [c \in Channels |-> IF c = "X" THEN 0 ELSE CooldownRate]
    /\ pc = [c \in Channels |-> IF c = "X" THEN p ELSE "Idle"]
    /\ action = [c \in Channels |-> IF c = "X" THEN "meet" ELSE "None"]
    /\ msgs = [c \in Channels |-> IF c = "X" THEN h ELSE <<>>]
    /\ fetched = [c \in Channels |-> IF c = "X" THEN "returned" ELSE "no"]
    /\ out = [c \in Channels |-> NoOut]
    /\ response = [c \in Channels |-> <<>>]
    /\ pending = [c \in Channels |-> NoPost]
    /\ err = [c \in Channels |-> "None"]
    /\ retry_after = [c \in Channels |-> 0]
    /\ posts = [c \in Channels |-> <<>>]
    /\ invoked = [c \in Channels |-> 0]
    /\ fetches = [c \in Channels |-> IF c = "X" THEN 1 ELSE 0]
    /\ escaped = [c \in Channels |-> FALSE]
    /\ log = [c \in Channels |->
                 IF c = "X" /\ p = "Recommending"
                 THEN <<LogLine("schedule_meet", <<>>)>>
                 ELSE <<>>]
    /\ taker = [c \in Channels |-> IF c = "X" THEN "meet" ELSE "nobody"]
    /\ ping_elapsed = [u \in Users |-> PingExpired]
    /\ ping_tokens = [u \in Users |-> PingRate]
    /\ ping_posts = [u \in Users |-> <<>>]

\* the transcript builder, on every history of RichHistories
InitBuild ==
    \E h \in RichHistories :
        /\ InFlight("Fetched", h)
        /\ messages = [c \in Channels |-> IF c = "X" THEN h ELSE <<>>]
        /\ messages_string = [c \in Channels |-> <<>>]

NextBuild == Build("X") \/ LogRequest("X")

SpecBuild == InitBuild /\ [][NextBuild]_vars

\* the recommendation and its posting, on every model output of RichRaws
InitRespond ==
    \E h \in SimpleHistories :
        /\ BuildTranscript(h) # <<>>
        /\ InFlight("Recommending", h)
        /\ messages = [c \in Channels |-> IF c = "X" THEN Reverse(h) ELSE <<>>]
        /\ messages_string =
               [c \in Channels |-> IF c = "X" THEN BuildTranscript(h) ELSE <<>>]

NextRespond ==
    \/ \E r \in RichRaws : Recommend("X", Returned(r))
    \/ Recommend("X", Raised)
    \/ Respond("X")
    \/ SendTry("X")
    \/ HandleError("X")
    \/ OnCommandError("X")

SpecRespond == InitRespond /\ [][NextRespond]_vars

\* what the channels hold and what the model returns where two invocations
\* run side by side
ConcMsgs == {Msg(<<"d">>, <<"u">>, <<"y">>)}
ConcRaws == {<<"r">>}

\* Invocations of the schedule command in two channels, interleaved at their
\* awaits by the one event loop. No time passes: each channel admits one
\* invocation and rejects the later ones.
NextConc == \E c \in Channels : Step(c, ConcMsgs, ConcRaws)

SpecConc == Init /\ [][NextConc]_vars

\* The two cooldowns and the clock: the schedule command in two channels,
\* with a sub-action that ends the handler at the usage message (the cooldown
\* is taken before the sub-action is looked at), and the pings of one user.
NextCooldown ==
    \/ Tick
    \/ Ping("U")
    \/ \E c \in Channels :
         \/ Invoke(c, "sync")
         \/ Validate(c)
         \/ SendUsage(c)
         \/ OnCommandError(c)

SpecCooldown == Init /\ [][NextCooldown]_vars

(* ------------------------------------------------------------------ *)
(* Properties                                                         *)
(* ------------------------------------------------------------------ *)
\* the invocation in channel c was not rejected by the cooldown
Admitted(c) == pc[c] # "Idle" /\ err[c] # "CommandOnCooldown"

LastPost(c) == posts[c][Len(posts[c])]

\* the kind of the first post the invocation attempts, or is about to
FirstPostKind(c) ==
    IF posts[c] # <<>> THEN posts[c][1].kind ELSE pending[c].kind

\* C1 (as claimed): every admitted invocation of the schedule command has
\* emitted exactly one user-visible message when it is over, whichever stage
\* it ended in, failing sends included.
C1_ExactlyOneMessage ==
    \A c \in Channels :
        pc[c] = "Done" /\ Admitted(c) => Len(Delivered(c)) = 1

\* C1 (amended): an admitted invocation never emits more than one message
\* and nothing follows a delivered message; when it is over it has attempted
\* at least one post, and it has emitted exactly one message unless its last
\* attempted post failed, which is the post of on_command_error after an
\* exception left schedule_meet: then it has emitted none.
C1_AtMostOneMessage ==
    \A c \in Channels :
        Admitted(c) =>
            /\ Len(Delivered(c)) <= 1
            /\ Len(Delivered(c)) = 1 => pc[c] = "Done"
            /\ pc[c] = "Done" =>
                 /\ posts[c] # <<>>
                 /\ Len(Delivered(c)) = 1 <=> LastPost(c).ok
                 /\ ~LastPost(c).ok =>
                        escaped[c] /\ LastPost(c).kind = "Unexpected"

\* an admitted invocation is over after two failed posts and a third that
\* was delivered
C1_Witness ==
    /\ pc["X"] = "Done"
    /\ Admitted("X")
    /\ Len(posts["X"]) = 3
    /\ ~posts["X"][1].ok
    /\ ~posts["X"][2].ok
    /\ posts["X"][3].ok

C3_NoMessagesNoModel ==
    \A c \in Channels :
        (fetched[c] = "returned" /\ messages[c] = <<>> /\ pc[c] # "Fetched") =>
            /\ invoked[c] = 0
            /\ ~out[c].called
            /\ pc[c] \notin {"Logging", "Recommending", "Responding"}
            /\ FirstPostKind(c) = "NoMessages"

\* the fetch returned nothing and the "No messages found" message was posted
C3_Witness ==
    /\ pc["X"] = "Done"
    /\ fetched["X"] = "returned"
    /\ messages["X"] = <<>>
    /\ Len(posts["X"]) = 1
    /\ posts["X"][1].kind = "NoMessages"
    /\ posts["X"][1].ok

\* trimmed content empty, or longer than 500 characters
FilteredOut(m) ==
    Strip(m.content) = <<>> \/ Len(Strip(m.content)) > 500

\* C4: when the fetch returned messages and every one of them is filtered
\* out, the post the try block attempts is the "No valid messages" message
\* and chain.invoke is not called; chain.invoke is only ever called with a
\* non-empty transcript.
C4_NoValidNoModel ==
    \A c \in Channels :
        /\ out[c].called => out[c].arg # <<>>
        /\ pc[c] \in {"Logging", "Recommending", "Responding"} =>
               messages_string[c] # <<>>
        /\ (fetched[c] = "returned" /\ messages[c] # <<>> /\ pc[c] # "Fetched")
           => \/ /\ invoked[c] = 0
                 /\ ~out[c].called
                 /\ pc[c] \notin {"Logging", "Recommending", "Responding"}
                 /\ FirstPostKind(c) = "NoValid"
              \/ \E i \in 1..Len(messages[c]) : ~FilteredOut(messages[c][i])

\* a blank and an over-long message were fetched and "No valid messages" was
\* posted
C4_Witness ==
    /\ pc["X"] = "Done"
    /\ fetched["X"] = "returned"
    /\ Len(messages["X"]) = 2
    /\ Strip(messages["X"][1].content) = <<>>
    /\ Len(Strip(messages["X"][2].content)) > 500
    /\ posts["X"] # <<>>
    /\ posts["X"][1].kind = "NoValid"
    /\ posts["X"][1].ok

\* the transcript of channel c has been built from the fetched list msgs[c]
Built(c) ==
    /\ fetched[c] = "returned"
    /\ msgs[c] # <<>>
    /\ pc[c] \notin {"Fetching", "Fetched"}

\* C5 (as claimed): the transcript handed to the recommendation client holds
\* no occurrence of the raw tokens "@everyone" and "@here", whatever the
\* authors' names and the contents are.
C5_NoRawMention ==
    \A c \in Channels :
        Built(c) =>
            /\ ~Occurs(messages_string[c], EveryoneTok)
            /\ ~Occurs(messages_string[c], HereTok)

\* C6: a text of chain.invoke longer than 2000 becomes its first 1950
\* characters followed by the truncation marker, a text of length at most
\* 2000 stays as it is, and that is the text the response post carries (an
\* empty text is not posted at all).
C6_Truncation ==
    \A c \in Channels :
        (out[c].called /\ out[c].ok) =>
            /\ Len(out[c].text) > 2000 =>
                 /\ Len(response[c]) = 1950 + Len(TruncationMarker)
                 /\ SubSeq(response[c], 1, 1950) = SubSeq(out[c].text, 1, 1950)
                 /\ SubSeq(response[c], 1951, Len(response[c])) = TruncationMarker
            /\ Len(out[c].text) <= 2000 => response[c] = out[c].text
            /\ \A i \in 1..Len(posts[c]) :
                 posts[c][i].kind = "Response" => posts[c][i].text = response[c]
            /\ (pc[c] = "Done" /\ response[c] # <<>>) =>
                 posts[c][1].kind = "Response"

\* a text of 2001 characters was truncated to 1950 and the marker, and posted
C6_Witness ==
    /\ pc["X"] = "Done"
    /\ out["X"].ok
    /\ Len(out["X"].text) = 2001
    /\ posts["X"][1].kind = "Response"
    /\ posts["X"][1].ok
    /\ Len(posts["X"][1].text) = 1974

\* C7: every text the bot posts or tries to post during a schedule
\* invocation, the cooldown message included, has length at most 2000.
C7_PostsWithinLimit ==
    \A c \in Channels :
        /\ \A i \in 1..Len(posts[c]) : PostLen(posts[c][i]) <= 2000
        /\ pending[c].kind # "None" => PostLen(pending[c]) <= 2000

\* a recommendation that chain.invoke returned with more than 2000
\* characters has been posted
C7_Witness ==
    /\ pc["X"] = "Done"
    /\ Len(out["X"].text) > 2000
    /\ posts["X"] # <<>>
    /\ posts["X"][1].kind = "Response"
    /\ posts["X"][1].ok

\* concatenation of a sequence of sequences
RECURSIVE Flatten(_)
Flatten(ss) == IF ss = <<>> THEN <<>> ELSE Head(ss) \o Flatten(Tail(ss))

\* sum of a sequence of numbers
RECURSIVE Sum(_)
Sum(ns) == IF ns = <<>> THEN 0 ELSE Head(ns) + Sum(Tail(ns))

\* the fetched messages (most recent first) that the claims say survive,
\* oldest first
Survivors(h) ==
    SelectSeq([i \in 1..Len(h) |-> h[Len(h) + 1 - i]],
              LAMBDA m : ~FilteredOut(m))

\* C8: the transcript is the surviving messages' lines "<name>: <content>",
\* oldest first, joined by newlines.
C8_Chronological ==
    \A c \in Channels :
        Built(c) =>
            LET surv == Survivors(msgs[c])
            IN  /\ messages[c] = [i \in 1..Len(msgs[c]) |->
                                      msgs[c][Len(msgs[c]) + 1 - i]]
                /\ IF surv = <<>>
                   THEN messages_string[c] = <<>>
                   ELSE messages_string[c] \o <<NL>> =
                            Flatten([k \in 1..Len(surv) |-> Line(surv[k])])

\* two different messages survived and are in the transcript
C8_Witness ==
    /\ Built("X")
    /\ Len(Survivors(msgs["X"])) = 2
    /\ msgs["X"][1] # msgs["X"][2]
    /\ pc["X"] = "Recommending"

\* the number of newline-separated lines of a text
LineCount(t) ==
    IF t = <<>> THEN 0 ELSE 1 + Cardinality({i \in 1..Len(t) : t[i] = NL})

\* C9 (as claimed): a transcript built from N fetched messages has at most N
\* newline-separated lines, also when contents hold newline characters.
C9_AtMostNLines ==
    \A c \in Channels :
        Built(c) => LineCount(messages_string[c]) <= Len(msgs[c])

\* occurrences of the raw mass-mention tokens in a text
TokenCount(t) ==
    Cardinality(Matches(t, EveryoneTok)) + Cardinality(Matches(t, HereTok))

\* C10 (as claimed): the content part of the line of every surviving message
\* has length at most 500, rewritten mass-mention tokens included.
C10_ContentAtMost500 ==
    \A c \in Channels :
        Built(c) =>
            \A i \in 1..Len(msgs[c]) :
                Occurs(messages_string[c] \o <<NL>>, Line(msgs[c][i])) =>
                    Len(Line(msgs[c][i])) - Len(Username(msgs[c][i])) - 3 <= 500

\* C10 (amended): the length bound is on the trimmed content before the
\* tokens are rewritten: a surviving message's line holds its name, ": " and
\* its trimmed content of at most 500 characters plus one zero-width
\* character per mass-mention token, so that part can be longer than 500; a
\* message whose trimmed content exceeds 500 characters adds nothing to the
\* transcript.
C10_BoundBeforeRewrite ==
    \A c \in Channels :
        Built(c) =>
            LET surv == Survivors(msgs[c])
                part(m) == Len(Strip(m.content)) + TokenCount(Strip(m.content))
            IN  /\ \A k \in 1..Len(surv) : Len(Strip(surv[k].content)) <= 500
                /\ Len(messages_string[c] \o <<NL>>) =
                       IF surv = <<>>
                       THEN 1
                       ELSE Sum([k \in 1..Len(surv) |->
                                   Len(Username(surv[k])) + 2 + part(surv[k]) + 1])

\* a message of 500 characters with one mass-mention token survived: the
\* content on its line has 501
C10_Witness ==
    /\ Built("X")
    /\ Len(msgs["X"]) = 1
    /\ Len(Strip(msgs["X"][1].content)) = 500
    /\ TokenCount(Strip(msgs["X"][1].content)) = 1
    /\ Len(messages_string["X"]) = 501 + 3

\* the invocation in channel c was rejected by the cooldown
Rejected(c) == err[c] = "CommandOnCooldown"

\* C11 (as claimed): a schedule invocation that arrives less than 10 seconds
\* after the admitted one is rejected at once with a cooldown message that
\* names a positive wait time, and does no history fetch and no model call.
C11_RejectedWithPositiveWait ==
    \A c \in Channels :
        (Rejected(c) /\ retry_after[c] > 0) =>
            /\ pc[c] \in {"Hook", "Done"}
            /\ fetches[c] = 0
            /\ invoked[c] = 0
            /\ pc[c] = "Done" =>
                 /\ Len(posts[c]) = 1
                 /\ posts[c][1].kind = "Cooldown"
                 /\ RetryTenths(posts[c][1].retry_after) > 0

\* C12: an admitted invocation whose sub-action is not "meet" attempts the
\* usage message as its first post and stops: it starts no history fetch and
\* never calls chain.invoke.
C12_UsageAndStop ==
    \A c \in Channels :
        (Admitted(c) /\ action[c] # "meet" /\ pc[c] # "Validating") =>
            /\ pc[c] \in {"SendUsage", "Hook", "Done"}
            /\ FirstPostKind(c) = "Usage"
            /\ fetches[c] = 0
            /\ fetched[c] = "no"
            /\ invoked[c] = 0
            /\ ~out[c].called

\* `!schedule sync` was admitted and answered with the usage message
C12_Witness ==
    /\ pc["X"] = "Done"
    /\ Admitted("X")
    /\ action["X"] = "sync"
    /\ Len(posts["X"]) = 1
    /\ posts["X"][1].kind = "Usage"
    /\ posts["X"][1].ok

\* C13: when the fetch times out, the fetch is over (nothing more is
\* received), the first post attempted is the timeout message, `messages`
\* is empty whatever had been received, no transcript is built and
\* chain.invoke is never called in that invocation.
C13_TimeoutNoPartial ==
    \A c \in Channels :
        fetched[c] = "timeout" =>
            /\ pc[c] \in {"SendTry", "Handler", "Hook", "Done"}
            /\ FirstPostKind(c) = "Timeout"
            /\ fetches[c] = 1
            /\ messages[c] = <<>>
            /\ messages_string[c] = <<>>
            /\ invoked[c] = 0
            /\ ~out[c].called

\* the fetch timed out after two messages had been received, and the timeout
\* message was posted
C13_Witness ==
    /\ pc["X"] = "Done"
    /\ fetched["X"] = "timeout"
    /\ Len(msgs["X"]) = 2
    /\ Len(posts["X"]) = 1
    /\ posts["X"][1].kind = "Timeout"
    /\ posts["X"][1].ok

\* chain.invoke was called in channel c's invocation and raised
ModelFailed(c) == out[c].called /\ ~out[c].ok

\* the line process_schedule_request logs the cause of the failure with
CauseLogged(c) ==
    \E i \in 1..Len(log[c]) :
        log[c][i] = LogLine("process_schedule_request", out[c].text)

\* C14 (as claimed): when chain.invoke raises, process_schedule_request
\* returns the generic message, the cause is logged and is in no posted
\* text, and when the invocation is over the user has seen exactly that one
\* generic message.
C14_UserSeesGeneric ==
    \A c \in Channels :
        ModelFailed(c) =>
            /\ response[c] = AIErrorText
            /\ CauseLogged(c)
            /\ \A i \in 1..Len(posts[c]) : ~Occurs(posts[c][i].text, out[c].text)
            /\ pc[c] = "Done" =>
                 /\ Len(Delivered(c)) = 1
                 /\ Delivered(c)[1].kind = "Response"
                 /\ Delivered(c)[1].text = AIErrorText

\* C14 (amended): when chain.invoke raises, process_schedule_request returns
\* the generic message, the cause is logged and is in no text posted or about
\* to be posted, and the generic message is the first post the invocation
\* attempts. The user sees that one message if its post succeeds; if the post
\* fails, the only posts that follow are those of the except clauses and of
\* on_command_error, and the user sees at most the one of them that
\* succeeds.
C14_GenericOrSendFailure ==
    \A c \in Channels :
        ModelFailed(c) =>
            /\ response[c] = AIErrorText
            /\ CauseLogged(c)
            /\ ~Occurs(pending[c].text, out[c].text)
            /\ \A i \in 1..Len(posts[c]) :
                 /\ ~Occurs(posts[c][i].text, out[c].text)
                 /\ i = 1 =>
                      /\ posts[c][i].kind = "Response"
                      /\ posts[c][i].text = AIErrorText
                 /\ i > 1 =>
                      /\ ~posts[c][1].ok
                      /\ posts[c][i].kind
                             \in {"Permission", "Communication", "Unexpected"}
            /\ Len(Delivered(c)) <= 1
            /\ pc[c] = "Done" =>
                 /\ posts[c] # <<>>
                 /\ posts[c][1].ok => Len(posts[c]) = 1

\* chain.invoke raised and the generic message was posted
C14_Witness ==
    /\ pc["X"] = "Done"
    /\ ModelFailed("X")
    /\ CauseLogged("X")
    /\ Len(posts["X"]) = 1
    /\ posts["X"][1].kind = "Response"
    /\ posts["X"][1].text = AIErrorText
    /\ posts["X"][1].ok

\* the positions at which an invocation waits: for the history fetch, for
\* the model, for a message post
Waits == {"Fetching", "Recommending", "SendUsage", "SendTry"}

\* C15 (as claimed): while the invocation in one channel waits for the
\* history fetch, for the model or for a message post, an invocation in
\* another channel can start and take its steps.
C15_WaitsDoNotBlock ==
    \A c \in Channels :
        pc[c] \in Waits =>
            \A d \in Channels \ {c} : ENABLED Step(d, ConcMsgs, ConcRaws)

\* C16: when an except clause of schedule_meet catches a failure raised
\* inside the try block, the post it attempts is the permission message for
\* discord.Forbidden, the communication message for any other
\* discord.HTTPException, and the unexpected-error message for anything else.
C16_FailuresMappedIndividually ==
    [][\A c \in Channels :
           (pc[c] = "Handler" /\ pc'[c] # "Handler") =>
               /\ Len(posts'[c]) = Len(posts[c]) + 1
               /\ err[c] = "Forbidden" =>
                      posts'[c][Len(posts'[c])].kind = "Permission"
               /\ err[c] = "HTTPException" =>
                      posts'[c][Len(posts'[c])].kind = "Communication"
               /\ err[c] \notin {"Forbidden", "HTTPException"} =>
                      posts'[c][Len(posts'[c])].kind = "Unexpected"]_vars

\* the history fetch raised discord.Forbidden and the permission message was
\* posted
C16_Witness ==
    /\ pc["X"] = "Done"
    /\ fetched["X"] = "raised"
    /\ err["X"] = "Forbidden"
    /\ Len(posts["X"]) = 1
    /\ posts["X"][1].kind = "Permission"
    /\ posts["X"][1].ok

\* the stage of the invocation's state machine a position belongs to:
\* Validating 1, Fetching 2, Building 3, Recommending 4, Responding 5, and
\* after them the posts of messages, the error handlers and the end
Stage(p) ==
    CASE p = "Idle" -> 0
      [] p = "Validating" -> 1
      [] p \in {"TypingStart", "FetchStart", "Fetching"} -> 2
      [] p \in {"Fetched", "Logging"} -> 3
      [] p = "Recommending" -> 4
      [] p = "Responding" -> 5
      [] p \in {"SendUsage", "SendTry"} -> 6
      [] p = "Handler" -> 7
      [] p = "Hook" -> 8
      [] p = "Done" -> 9

\* C17: in one invocation the history fetch is started at most once and
\* chain.invoke is called at most once; the invocation never goes back to an
\* earlier stage, and it enters each of the stages Fetching, Building,
\* Recommending, Responding only from the stage before it.
C17_NoRetryInOrder ==
    /\ [](\A c \in Channels : fetches[c] <= 1 /\ invoked[c] <= 1)
    /\ [][\A c \in Channels :
             (pc[c] \notin {"Idle", "Done"} /\ pc'[c] # pc[c]) =>
                 /\ Stage(pc'[c]) >= Stage(pc[c])
                 /\ Stage(pc'[c]) \in 2..5 =>
                        Stage(pc[c]) \in {Stage(pc'[c]) - 1, Stage(pc'[c])}
                 /\ fetches'[c] = fetches[c] + 1 <=> pc[c] = "FetchStart"
                 /\ invoked'[c] = invoked[c] + 1 <=> pc[c] = "Recommending"]_vars

\* an invocation went through every stage once, its response post failed
\* and so did the post of the except clause: it is over, nothing was redone
C17_Witness ==
    /\ pc["X"] = "Done"
    /\ fetches["X"] = 1
    /\ invoked["X"] = 1
    /\ Len(posts["X"]) = 3
    /\ posts["X"][1].kind = "Response"
    /\ ~posts["X"][1].ok
    /\ ~posts["X"][2].ok

\* the step dispatches a schedule invocation in channel c
Dispatched(c) == pc[c] \in {"Idle", "Done"} /\ pc'[c] \in {"Validating", "Hook"}

\* the step is a `!ping` of user u
Pinged(u) ==
    \/ ping_posts'[u] # ping_posts[u]
    \/ ping_tokens'[u] # ping_tokens[u]
    \/ ping_elapsed'[u] < ping_elapsed[u]

\* C18: a schedule invocation is rejected exactly when its own channel's
\* bucket holds no token and its window has not elapsed, so it is admitted
\* once the window has elapsed; what an invocation in one channel does leaves
\* the bucket of every other channel and the ping buckets as they are; a
\* ping is rejected exactly when its user's bucket holds no token inside its
\* 5-second window, and leaves the schedule buckets as they are.
C18_CooldownsIndependent ==
    [][/\ \A c \in Channels :
            /\ Dispatched(c) =>
                 /\ pc'[c] = "Hook" <=>
                        (tokens[c] = 0 /\ elapsed[c] <= Seconds(CooldownPer))
                 /\ pc'[c] = "Hook" => err'[c] = "CommandOnCooldown"
            /\ pc'[c] # pc[c] =>
                 /\ \A d \in Channels \ {c} :
                        elapsed'[d] = elapsed[d] /\ tokens'[d] = tokens[d]
                 /\ UNCHANGED <<ping_elapsed, ping_tokens, ping_posts>>
            /\ tokens'[c] # tokens[c] => Dispatched(c)
       /\ \A u \in Users :
            Pinged(u) =>
                /\ ping_posts'[u][1].kind = "Cooldown" <=>
                       (ping_tokens[u] = 0 /\ ping_elapsed[u] <= Seconds(PingPer))
                /\ UNCHANGED <<elapsed, tokens, pc, posts, err, retry_after>>
                /\ \A v \in Users \ {u} :
                       /\ ping_elapsed'[v] = ping_elapsed[v]
                       /\ ping_tokens'[v] = ping_tokens[v]]_vars

\* schedule invocations were admitted in channel X, then in channel Y inside
\* X's window, and a ping of user U was answered inside both windows
C18_Witness ==
    /\ pc["X"] = "Done" /\ Admitted("X")
    /\ pc["Y"] = "Done" /\ Admitted("Y")
    /\ elapsed["X"] <= Seconds(CooldownPer)
    /\ elapsed["Y"] < elapsed["X"]
    /\ ping_elapsed["U"] < elapsed["Y"]
    /\ ping_posts["U"] = <<Attempt(Fixed("Pong"), TRUE)>>

\* C19: every admitted invocation has taken the channel's token and started
\* its window before the handler looks at the sub-action; so an invocation
\* dispatched within 10 seconds of an admitted one whose sub-action was not
\* "meet" is rejected with CommandOnCooldown, and a rejected invocation
\* posts nothing but the cooldown message, fetches nothing and calls no model.
C19_UsageErrorStartsCooldown ==
    /\ [](\A c \in Channels :
             /\ pc[c] = "Validating" =>
                  tokens[c] = 0 /\ taker[c] = action[c]
             /\ Rejected(c) =>
                  /\ pc[c] \in {"Hook", "Done"}
                  /\ fetches[c] = 0
                  /\ invoked[c] = 0
                  /\ Len(posts[c]) <= 1
                  /\ FirstPostKind(c) \in {"None", "Cooldown"}
                  /\ pc[c] = "Done" => FirstPostKind(c) = "Cooldown")
    /\ [][\A c \in Channels :
             /\ (Dispatched(c) /\ pc'[c] = "Validating") =>
                    /\ elapsed'[c] = 0
                    /\ tokens'[c] = 0
                    /\ taker'[c] = action'[c]
             /\ (/\ Dispatched(c)
                 /\ taker[c] \in Actions \ {"meet"}
                 /\ elapsed[c] <= Seconds(CooldownPer)) =>
                    /\ pc'[c] = "Hook"
                    /\ err'[c] = "CommandOnCooldown"
                    /\ retry_after'[c] = Seconds(CooldownPer) - elapsed[c]
                    /\ taker'[c] = taker[c]]_vars

\* `!schedule meet` was rejected with the cooldown message in the window that
\* a `!schedule sync` had started
C19_Witness ==
    /\ pc["X"] = "Done"
    /\ Rejected("X")
    /\ action["X"] = "meet"
    /\ taker["X"] = "sync"
    /\ Len(posts["X"]) = 1
    /\ posts["X"][1].kind = "Cooldown"
    /\ posts["X"][1].ok

\* C20: process_schedule_request gives its caller a non-empty text when
\* chain.invoke raises and never an exception, so the "I'm having trouble
\* analyzing" message is never posted, and the failure reaches the user as
\* the response post, the first post of the invocation, with no except
\* clause entered before it.
C20_FailureViaResponsePost ==
    \A c \in Channels :
        /\ pending[c].kind # "Trouble"
        /\ \A i \in 1..Len(posts[c]) : posts[c][i].kind # "Trouble"
        /\ ModelFailed(c) =>
             /\ ~ProcessScheduleRequest(out[c]).raised
             /\ response[c] = ProcessScheduleRequest(out[c]).text
             /\ response[c] # <<>>
             /\ pc[c] \in {"Responding", "SendTry", "Handler", "Hook", "Done"}
             /\ pc[c] \in {"Responding", "SendTry"} => err[c] = "None"
             /\ pc[c] # "Responding" =>
                  /\ FirstPostKind(c) = "Response"
                  /\ posts[c] = <<>> => pending[c].text = response[c]
                  /\ posts[c] # <<>> => posts[c][1].text = response[c]

\* chain.invoke raised and the text process_schedule_request returned is
\* about to be posted with channel.send
C20_Witness ==
    /\ pc["X"] = "SendTry"
    /\ ModelFailed("X")
    /\ posts["X"] = <<>>
    /\ pending["X"].kind = "Response"
    /\ pending["X"].text = AIErrorText

====
